---- MODULE Spec2Model ----
(***************************************************************************)
(* Roof Troops estimator: the geometry extractor, the cost calculator and  *)
(* the upload handler, as state machines.                                  *)
(*                                                                         *)
(* Text is a sequence of one-character strings, so that split, strip and   *)
(* lower are computed character by character.  Numbers are fixed point:    *)
(* a value parsed from text is held in thousandths, the extractor's        *)
(* rounded outputs in hundredths, a quantity in ten-thousandths and money  *)
(* in cents.  round(x, 2) is exact decimal round-half-even; the inputs     *)
(* are chosen so that no value lies on a rounding tie, where a binary      *)
(* float could fall on either side.                                        *)
(***************************************************************************)
EXTENDS Integers, Sequences, FiniteSets, TLC

VARIABLES
    \* load_eagleview_geometry
    gpc,            \* position in the function
    file,           \* what xml_path holds: "missing", "malformed", "wellformed"
    points,         \* dict: point id -> list of coordinates
    edge_lengths,   \* dict: edge kind -> running total (thousandths)
    total_area,     \* running total (thousandths)
    nread,          \* elements the current loop has read
    last,           \* the element the last loop iteration read
    gresult,        \* the returned pair
    \* calculate_material_costs
    cpc,            \* position in the function
    area,           \* argument (hundredths)
    edges,          \* argument: dict edge kind -> length (hundredths)
    csv,            \* the price list file: whether it exists, and its rows
    price_dict,     \* what load_price_list returned
    item_dicts,     \* the item_dict built for each row, in row order
    cresult,        \* the returned pair of lists
    \* upload / results handlers
    hpc,            \* position in the handler
    req,            \* the request being served
    uploads,        \* files in UPLOAD_FOLDER
    calls,          \* pipeline stages invoked for this request, in order
    harea,          \* upload()'s local area, -1 before it is set
    response,       \* what the client has received
    served          \* requests completed so far

geomVars == <<gpc, file, points, edge_lengths, total_area, nread, last, gresult>>
costVars == <<cpc, area, edges, csv, price_dict, item_dicts, cresult>>
webVars == <<hpc, req, uploads, calls, harea, response, served>>
vars == <<geomVars, costVars, webVars>>

----------------------------------------------------------------------------
\* Bounds of the model

MaxPoints == 2
MaxLines == 2
MaxFaces == 2

----------------------------------------------------------------------------
\* Python values and text

\* Python's None, where an id or an attribute is absent
None == <<"<None>">>

\* the empty dict {}
EmptyDict == [k \in {} |-> 0]

\* str.split(sep): the fields between separators, "" splits to [""]
RECURSIVE SplitFrom(_, _, _)
SplitFrom(s, sep, cur) ==
    IF s = <<>> THEN <<cur>>
    ELSE IF Head(s) = sep THEN <<cur>> \o SplitFrom(Tail(s), sep, <<>>)
    ELSE SplitFrom(Tail(s), sep, Append(cur, Head(s)))

Split(s, sep) == SplitFrom(s, sep, <<>>)

Digits == {"0", "1", "2", "3", "4", "5", "6", "7", "8", "9"}

DigitVal(c) ==
    CASE c = "0" -> 0 [] c = "1" -> 1 [] c = "2" -> 2 [] c = "3" -> 3
      [] c = "4" -> 4 [] c = "5" -> 5 [] c = "6" -> 6 [] c = "7" -> 7
      [] c = "8" -> 8 [] c = "9" -> 9

RECURSIVE NatOf(_)
NatOf(ds) ==
    IF ds = <<>> THEN 0
    ELSE 10 * NatOf(SubSeq(ds, 1, Len(ds) - 1)) + DigitVal(ds[Len(ds)])

AllDigits(s) == \A i \in 1..Len(s) : s[i] \in Digits

\* float(text) succeeds: digits with at most one decimal point
\* (signs, exponents, blanks, inf and nan are outside the alphabet used)
FloatOk(s) ==
    LET parts == Split(s, ".")
    IN  /\ Len(parts) \in {1, 2}
        /\ \A i \in 1..Len(parts) : AllDigits(parts[i])
        /\ \E i \in 1..Len(parts) : parts[i] # <<>>

\* float(text) in thousandths (texts carry at most three decimals)
Pad3(ds) == SubSeq(ds \o <<"0", "0", "0">>, 1, 3)

FloatOf(s) ==
    LET parts == Split(s, ".")
    IN  1000 * NatOf(parts[1])
          + (IF Len(parts) = 2 THEN NatOf(Pad3(parts[2])) ELSE 0)

\* round half to even of n / d, n >= 0
RoundDiv(n, d) ==
    LET q == n \div d
        r == n % d
    IN  IF 2 * r < d THEN q
        ELSE IF 2 * r > d THEN q + 1
        ELSE IF q % 2 = 0 THEN q ELSE q + 1

\* round(x, 2): thousandths to hundredths
Round2(milli) == RoundDiv(milli, 10)

IsSpace(c) == c = " "

RECURSIVE LStrip(_)
LStrip(s) == IF s # <<>> /\ IsSpace(Head(s)) THEN LStrip(Tail(s)) ELSE s

RECURSIVE RStrip(_)
RStrip(s) ==
    IF s # <<>> /\ IsSpace(s[Len(s)]) THEN RStrip(SubSeq(s, 1, Len(s) - 1)) ELSE s

Strip(s) == LStrip(RStrip(s))

LowerAlpha ==
    <<"a","b","c","d","e","f","g","h","i","j","k","l","m","n","o","p","q","r","s","t","u","v","w","x","y","z">>

UpperAlpha ==
    <<"A","B","C","D","E","F","G","H","I","J","K","L","M","N","O","P","Q","R","S","T","U","V","W","X","Y","Z">>

\* the letters' case maps
LowerMap ==
    [c \in {UpperAlpha[i] : i \in 1..26} |->
        LowerAlpha[CHOOSE i \in 1..26 : UpperAlpha[i] = c]]

UpperMap ==
    [c \in {LowerAlpha[i] : i \in 1..26} |->
        UpperAlpha[CHOOSE i \in 1..26 : LowerAlpha[i] = c]]

LowerChar(c) == IF c \in DOMAIN LowerMap THEN LowerMap[c] ELSE c

UpperChar(c) == IF c \in DOMAIN UpperMap THEN UpperMap[c] ELSE c

Lower(s) == [i \in 1..Len(s) |-> LowerChar(s[i])]

\* str.title(): a letter that follows a non-letter is capitalised, the rest lowered
Title(s) ==
    [i \in 1..Len(s) |->
        IF i = 1 \/ s[i - 1] \notin (DOMAIN LowerMap \cup DOMAIN UpperMap)
        THEN UpperChar(s[i]) ELSE LowerChar(s[i])]

\* dict.get(key, default)
Get(d, k, default) == IF k \in DOMAIN d THEN d[k] ELSE default

\* floor of the square root
RECURSIVE SqrtBetween(_, _, _)
SqrtBetween(n, lo, hi) ==
    IF lo = hi THEN lo
    ELSE LET mid == (lo + hi + 1) \div 2
         IN  IF mid * mid <= n THEN SqrtBetween(n, mid, hi)
             ELSE SqrtBetween(n, lo, mid - 1)

ISqrt(n) == SqrtBetween(n, 0, 46340)

----------------------------------------------------------------------------
\* load_eagleview_geometry

Ridge == <<"r","i","d","g","e">>

Hip == <<"h","i","p">>

Valley == <<"v","a","l","l","e","y">>

Eave == <<"e","a","v","e">>

Rake == <<"r","a","k","e">>

EdgeKinds == {Ridge, Hip, Valley, Eave, Rake}

ZeroEdges == [k \in EdgeKinds |-> 0]

\* the documents' elements
PointIds == { <<"A">>, <<"B">>, None }

PointData ==
    { <<"0",",","0",",","0">>, <<"3",",","4",",","0">>,
      <<"3",",","4",",","1","2">>, <<"3",",","4">>,
      <<"3",",","x",",","0">>, <<"7">>, <<>> }

PointElems == [tag : {"POINT"}, id : PointIds, data : PointData]

LineTypes ==
    { Ridge, <<" ","H","i","p"," ">>, Eave,
      <<"f","l","a","s","h","i","n","g">> }

LinePaths ==
    { <<"A",",","B">>, <<"A",",","Z">>, <<"A",",","B",",","C">>, <<"A">> }

LineElems == [tag : {"LINE"}, type : LineTypes, path : LinePaths]

FaceSizes ==
    { <<"1","5","0",".","2","5">>, <<"4","9",".","7","5","8">>,
      <<"a","b","c">>, None }

FaceElems ==
    [tag : {"FACE"}, poly : {TRUE}, size : FaceSizes]
      \cup [tag : {"FACE"}, poly : {FALSE}, size : {None}]

NoElem == [tag |-> "none"]

NoResult == [tag |-> "none"]

NoCsv == [exists |-> FALSE, rows |-> <<>>]

\* an HTTP response; area is the one in the redirect's query string or on the
\* page, -1 where there is none
Resp(kind, a) == [kind |-> kind, area |-> a]

NoResponse == Resp("none", -1)

Returned(a, e) == [tag |-> "pair", area |-> a, edges |-> e]

\* list(map(float, data.split(","))) raises ValueError
CoordsFail(data) ==
    \E i \in 1..Len(Split(data, ",")) : ~FloatOk(Split(data, ",")[i])

Coords(data) ==
    LET fs == Split(data, ",") IN [i \in 1..Len(fs) |-> FloatOf(fs[i])]

\* the body of the POINT loop: the new points dict
PointStep(pts, pt) ==
    IF CoordsFail(pt.data) THEN pts
    ELSE IF pt.id # None /\ pt.id # <<>>
         THEN [p \in DOMAIN pts \cup {pt.id} |->
                  IF p = pt.id THEN Coords(pt.data) ELSE pts[p]]
         ELSE pts

Kind(line) == Lower(Strip(line.type))

HasComma(path) == \E i \in 1..Len(path) : path[i] = ","

\* a_id, b_id = path.split(",") cannot unpack
UnpackFails(path) == HasComma(path) /\ Len(Split(path, ",")) # 2

EndA(path) == IF HasComma(path) THEN Split(path, ",")[1] ELSE None

EndB(path) == IF HasComma(path) THEN Split(path, ",")[2] ELSE None

\* pa - pb on numpy arrays: equal shapes, or one of length 1 is broadcast
Broadcasts(pa, pb) == Len(pa) = Len(pb) \/ Len(pa) = 1 \/ Len(pb) = 1

At(p, i) == IF Len(p) = 1 THEN p[1] ELSE p[i]

Width(pa, pb) == IF Len(pa) > Len(pb) THEN Len(pa) ELSE Len(pb)

RECURSIVE SumSq(_, _, _)
SumSq(pa, pb, i) ==
    IF i = 0 THEN 0
    ELSE (At(pa, i) - At(pb, i)) * (At(pa, i) - At(pb, i)) + SumSq(pa, pb, i - 1)

\* float(np.linalg.norm(pa - pb)), in thousandths
Norm(pa, pb) == ISqrt(SumSq(pa, pb, Width(pa, pb)))

LineResolves(pts, line) ==
    /\ EndA(line.path) \in DOMAIN pts
    /\ EndB(line.path) \in DOMAIN pts

\* the body of the LINE loop raises ValueError
LineRaises(pts, line) ==
    /\ Kind(line) \in EdgeKinds
    /\ \/ UnpackFails(line.path)
       \/ /\ LineResolves(pts, line)
          /\ ~Broadcasts(pts[EndA(line.path)], pts[EndB(line.path)])

\* LineStep with the second endpoint's lookup forgotten: a dangling b_id
\* is measured from the origin
LineStepDangling(pts, el, line) ==
    IF Kind(line) \in EdgeKinds /\ EndA(line.path) \in DOMAIN pts
    THEN [el EXCEPT ![Kind(line)] =
              @ + Norm(pts[EndA(line.path)],
                       Get(pts, EndB(line.path), <<0>>))]
    ELSE el

\* the body of the LINE loop: the new edge_lengths dict
LineStep(pts, el, line) ==
    IF Kind(line) \in EdgeKinds /\ LineResolves(pts, line)
    THEN [el EXCEPT ![Kind(line)] =
              @ + Norm(pts[EndA(line.path)], pts[EndB(line.path)])]
    ELSE el

\* the body of the FACE loop: the new total_area
FaceStep(total, face) ==
    IF face.poly
    THEN total + (IF face.size = None THEN 0
                  ELSE IF FloatOk(face.size) THEN FloatOf(face.size) ELSE 0)
    ELSE total

\* FailedLoad returning the initialised totals instead of {}
FailedLoadZeroEdges == Returned(0, ZeroEdges)

\* the value returned when the file is missing or does not parse
FailedLoad == Returned(0, EmptyDict)

\* if not os.path.exists(xml_path): return 0.0, {}
CheckExists ==
    /\ gpc = "exists"
    /\ IF file = "missing"
       THEN gpc' = "returned" /\ gresult' = FailedLoad
       ELSE gpc' = "parse" /\ gresult' = gresult
    /\ UNCHANGED <<file, points, edge_lengths, total_area, nread, last>>
    /\ UNCHANGED <<costVars, webVars>>

\* try: ET.parse(xml_path) except Exception: return 0.0, {}
ParseXml ==
    /\ gpc = "parse"
    /\ IF file = "malformed"
       THEN gpc' = "returned" /\ gresult' = FailedLoad
       ELSE gpc' = "points" /\ gresult' = gresult
    /\ UNCHANGED <<file, points, edge_lengths, total_area, nread, last>>
    /\ UNCHANGED <<costVars, webVars>>

\* one iteration of: for pt in root.findall(".//POINT")
PointIter ==
    /\ gpc = "points"
    /\ nread < MaxPoints
    /\ \E pt \in PointElems :
          /\ points' = PointStep(points, pt)
          /\ last' = pt
    /\ nread' = nread + 1
    /\ UNCHANGED <<gpc, file, edge_lengths, total_area, gresult>>
    /\ UNCHANGED <<costVars, webVars>>

\* the POINT loop ends; edge_lengths = {"ridge": 0.0, ...}
PointsDone ==
    /\ gpc = "points"
    /\ gpc' = "lines"
    /\ edge_lengths' = ZeroEdges
    /\ nread' = 0
    /\ last' = NoElem
    /\ UNCHANGED <<file, points, total_area, gresult>>
    /\ UNCHANGED <<costVars, webVars>>

\* one iteration of: for line in root.findall(".//LINE")
LineIter ==
    /\ gpc = "lines"
    /\ nread < MaxLines
    /\ \E line \in LineElems :
          /\ last' = line
          /\ IF LineRaises(points, line)
             THEN gpc' = "raised" /\ edge_lengths' = edge_lengths
             ELSE gpc' = gpc /\ edge_lengths' = LineStep(points, edge_lengths, line)
    /\ nread' = nread + 1
    /\ UNCHANGED <<file, points, total_area, gresult>>
    /\ UNCHANGED <<costVars, webVars>>

\* the LINE loop ends; total_area = 0.0
LinesDone ==
    /\ gpc = "lines"
    /\ gpc' = "faces"
    /\ total_area' = 0
    /\ nread' = 0
    /\ last' = NoElem
    /\ UNCHANGED <<file, points, edge_lengths, gresult>>
    /\ UNCHANGED <<costVars, webVars>>

\* one iteration of: for face in root.findall(".//FACE")
FaceIter ==
    /\ gpc = "faces"
    /\ nread < MaxFaces
    /\ \E face \in FaceElems :
          /\ total_area' = FaceStep(total_area, face)
          /\ last' = face
    /\ nread' = nread + 1
    /\ UNCHANGED <<gpc, file, points, edge_lengths, gresult>>
    /\ UNCHANGED <<costVars, webVars>>

\* return round(total_area, 2), {k: round(v, 2) for k, v in edge_lengths.items()}
ReturnGeometry ==
    /\ gpc = "faces"
    /\ gpc' = "returned"
    /\ gresult' = Returned(Round2(total_area),
                           [k \in DOMAIN edge_lengths |-> Round2(edge_lengths[k])])
    /\ UNCHANGED <<file, points, edge_lengths, total_area, nread, last>>
    /\ UNCHANGED <<costVars, webVars>>

GeomNext ==
    \/ CheckExists
    \/ ParseXml
    \/ PointIter
    \/ PointsDone
    \/ LineIter
    \/ LinesDone
    \/ FaceIter
    \/ ReturnGeometry

InitGeometry ==
    /\ gpc = "exists"
    /\ file \in {"missing", "malformed", "wellformed"}
    /\ points = EmptyDict
    /\ edge_lengths = EmptyDict
    /\ total_area = 0
    /\ nread = 0
    /\ last = NoElem
    /\ gresult = NoResult
    /\ cpc = "idle" /\ area = 0 /\ edges = EmptyDict /\ csv = NoCsv
    /\ price_dict = EmptyDict /\ item_dicts = <<>> /\ cresult = NoResult
    /\ hpc = "idle" /\ req = NoElem /\ uploads = {} /\ calls = <<>>
    /\ harea = -1 /\ response = NoResponse /\ served = 0

SpecGeometry == InitGeometry /\ [][GeomNext]_vars

----------------------------------------------------------------------------
\* calculate_material_costs and load_price_list

MaxRows == 2

HipRidgeShingles ==
    <<"h","i","p"," ","&"," ","r","i","d","g","e"," ","s","h","i","n","g","l","e","s">>

StarterStripShingles ==
    <<"s","t","a","r","t","e","r"," ","s","t","r","i","p"," ","s","h","i","n","g","l","e","s">>

RoofingNails ==
    <<"r","o","o","f","i","n","g"," ","n","a","i","l","s">>

CapNails ==
    <<"c","a","p"," ","n","a","i","l","s">>

DeckIntakeVent ==
    <<"d","e","c","k"," ","i","n","t","a","k","e"," ","v","e","n","t">>

Dumpster ==
    <<"d","u","m","p","s","t","e","r">>

DimensionalShingle ==
    <<"d","i","m","e","n","s","i","o","n","a","l"," ","s","h","i","n","g","l","e">>

SyntheticUnderlayment ==
    <<"s","y","n","t","h","e","t","i","c"," ","u","n","d","e","r","l","a","y","m","e","n","t">>

IceWaterShield ==
    <<"i","c","e"," ","&"," ","w","a","t","e","r"," ","s","h","i","e","l","d">>

DripEdge ==
    <<"d","r","i","p"," ","e","d","g","e">>

RidgeVent ==
    <<"r","i","d","g","e"," ","v","e","n","t">>

GutterGuards ==
    <<"g","u","t","t","e","r"," ","g","u","a","r","d","s">>

LuxuryCompositeShingle ==
    <<"l","u","x","u","r","y"," ","c","o","m","p","o","s","i","t","e"," ","s","h","i","n","g","l","e">>

PoweredAtticFan ==
    <<"p","o","w","e","r","e","d"," ","a","t","t","i","c"," ","f","a","n">>

Flashing ==
    <<"f","l","a","s","h","i","n","g">>

SqFt ==
    <<"s","q"," ","f","t">>

LinearFt ==
    <<"l","i","n","e","a","r"," ","f","t">>

Ea ==
    <<"e","a">>

Bundle ==
    <<"b","u","n","d","l","e">>

RidgeVentRaw ==
    <<" ","R","i","d","g","e"," ","V","e","n","t"," ">>

LinearFtRaw ==
    <<"L","i","n","e","a","r"," ","F","t"," ">>

\* the item names and unit types the price lists are drawn from
ItemNames ==
    { HipRidgeShingles, StarterStripShingles, RoofingNails, CapNails,
      DeckIntakeVent, Dumpster, DimensionalShingle, SyntheticUnderlayment,
      IceWaterShield, DripEdge, RidgeVent, GutterGuards,
      LuxuryCompositeShingle, PoweredAtticFan, Flashing }

UnitTypes == { SqFt, LinearFt, Ea, Bundle }

Row(n, u, p) == [item_name |-> n, unit_type |-> u, price_per_unit |-> p]

\* every name with every unit type, at one price
WideRows == { Row(n, u, <<"3",".","9","9">>) : n \in ItemNames, u \in UnitTypes }

\* rows of the three kinds (required, optional, neither), among them a price
\* that is not a number and a row written with blanks and capitals
CommonRows ==
    { Row(DimensionalShingle, SqFt, <<"3",".","9","9">>),
      Row(RoofingNails, Ea, <<"a","b","c">>),
      Row(RidgeVentRaw, LinearFtRaw, <<"1",".","2","9">>),
      Row(DeckIntakeVent, Ea, <<"1","2",".","x">>),
      Row(LuxuryCompositeShingle, SqFt, <<"1",".","2","9">>),
      Row(Flashing, LinearFt, <<"1",".","2","9">>) }

RECURSIVE SeqsUpTo(_, _)
SeqsUpTo(S, n) ==
    IF n = 0 THEN { <<>> }
    ELSE LET shorter == SeqsUpTo(S, n - 1)
         IN  shorter \cup { Append(q, x) : q \in shorter, x \in S }

\* the price lists: up to MaxRows rows, in any order and with repeats, of
\* which at most one is not a common row
PriceLists ==
    LET common == SeqsUpTo(CommonRows, MaxRows)
        shorter == SeqsUpTo(CommonRows, MaxRows - 1)
    IN  common \cup
          { SubSeq(q, 1, k) \o <<w>> \o SubSeq(q, k + 1, Len(q)) :
              <<q, k, w>> \in { x \in shorter \X (0..MaxRows) \X WideRows :
                                  x[2] <= Len(x[1]) } }

\* the arguments calculate_material_costs is called with
Areas == { 33, 1000 }

MeasuredEdges ==
    [k \in EdgeKinds |->
        CASE k = Ridge -> 500 [] k = Hip -> 1300 [] k = Eave -> 1200
          [] OTHER -> 0]

EdgeArgs == { EmptyDict, MeasuredEdges }

required_items ==
    { DimensionalShingle, SyntheticUnderlayment, DripEdge,
      StarterStripShingles, HipRidgeShingles, RoofingNails, CapNails, Dumpster }

optional_items_set ==
    { LuxuryCompositeShingle, IceWaterShield, RidgeVent, PoweredAtticFan,
      DeckIntakeVent, GutterGuards }

\* waste_materials without its last member
waste_materialsShort == { DimensionalShingle, SyntheticUnderlayment }

waste_materials == { DimensionalShingle, SyntheticUnderlayment, IceWaterShield }

\* PriceOf with the except branch falling back to 1.0
PriceOfDefaultOne(text) == IF FloatOk(text) THEN FloatOf(text) ELSE 1000

\* try: price = float(...) except ValueError: price = 0.0   (thousandths)
PriceOf(text) == IF FloatOk(text) THEN FloatOf(text) ELSE 0

\* load_price_list: name -> price, a later row overwriting an earlier one
RECURSIVE LoadPriceList(_)
LoadPriceList(rows) ==
    IF rows = <<>> THEN EmptyDict
    ELSE LET before == LoadPriceList(SubSeq(rows, 1, Len(rows) - 1))
             row == rows[Len(rows)]
             name == Lower(Strip(row.item_name))
             price == PriceOf(row.price_per_unit)
         IN  IF name # <<>>
             THEN [n \in DOMAIN before \cup {name} |->
                      IF n = name THEN price ELSE before[n]]
             ELSE before

\* Qty with the unit-type branches tested before the name branches
QtyUnitFirst(name, unit, a, e) ==
    IF unit = SqFt
    THEN (IF name \in waste_materials THEN a * 110 ELSE a * 100)
    ELSE IF unit = Ea THEN 10000
    ELSE IF name = HipRidgeShingles THEN (Get(e, Hip, 0) + Get(e, Ridge, 0)) * 100
    ELSE IF name = StarterStripShingles THEN Get(e, Eave, 0) * 100
    ELSE IF name = RoofingNails THEN a
    ELSE IF name = CapNails THEN 10000
    ELSE IF name = DeckIntakeVent THEN Get(e, Eave, 0) * 75
    ELSE IF name = Dumpster THEN 10000
    ELSE IF unit = LinearFt
         THEN (IF name = RidgeVent THEN Get(e, Ridge, 0) * 100
               ELSE IF name = GutterGuards THEN Get(e, Eave, 0) * 100
               ELSE IF name = DripEdge THEN Get(e, Eave, 0) * 100
               ELSE 0)
    ELSE 0

\* qty after the if/elif chain, in ten-thousandths; a and e are hundredths
Qty(name, unit, a, e) ==
    IF name = HipRidgeShingles THEN (Get(e, Hip, 0) + Get(e, Ridge, 0)) * 100
    ELSE IF name = StarterStripShingles THEN Get(e, Eave, 0) * 100
    ELSE IF name = RoofingNails THEN a
    ELSE IF name = CapNails THEN 10000
    ELSE IF name = DeckIntakeVent THEN Get(e, Eave, 0) * 75
    ELSE IF name = Dumpster THEN 10000
    ELSE IF unit = SqFt
         THEN (IF name \in waste_materials THEN a * 110 ELSE a * 100)
    ELSE IF unit = LinearFt
         THEN (IF name = RidgeVent THEN Get(e, Ridge, 0) * 100
               ELSE IF name = GutterGuards THEN Get(e, Eave, 0) * 100
               ELSE IF name = DripEdge THEN Get(e, Eave, 0) * 100
               ELSE 0)
    ELSE IF unit = Ea THEN 10000
    ELSE 0

\* cost computed from the quantity as displayed
CostOfRounded(qty, price) == RoundDiv(RoundDiv(qty, 100) * price, 1000)

\* cost = round(qty * price, 2), in cents
Cost(qty, price) == RoundDiv(qty * price, 100000)

\* item_dict for one row of the normalised frame
ItemDict(row, a, e) ==
    LET name == Lower(Strip(row.item_name))
        unit == Lower(Strip(row.unit_type))
        price == PriceOf(row.price_per_unit)
        qty == Qty(name, unit, a, e)
    IN  [Material |-> Title(name),
         UnitType |-> unit,
         UnitPrice |-> price,
         Quantity |-> RoundDiv(qty, 100),
         TotalCost |-> Cost(qty, price)]

\* core.append(item_dict) done at the front of the list
PrependItem(list, item) == <<item>> \o list

\* core.append(item_dict), optional.append(item_dict)
AppendItem(list, item) == Append(list, item)

\* the loop over df.iterrows() from row i on: every item_dict built, and the
\* core and optional lists
RECURSIVE RowLoop(_, _, _, _, _, _, _)
RowLoop(rows, i, a, e, items, core, optional) ==
    IF i > Len(rows)
    THEN [items |-> items, core |-> core, optional |-> optional]
    ELSE LET name == Lower(Strip(rows[i].item_name))
             item == ItemDict(rows[i], a, e)
         IN  IF name \in required_items
             THEN RowLoop(rows, i + 1, a, e, Append(items, item),
                          AppendItem(core, item), optional)
             ELSE IF name \in optional_items_set
             THEN RowLoop(rows, i + 1, a, e, Append(items, item),
                          core, AppendItem(optional, item))
             ELSE RowLoop(rows, i + 1, a, e, Append(items, item),
                          core, optional)

InitCost ==
    /\ cpc = "load_prices"
    /\ area \in Areas
    /\ edges \in EdgeArgs
    /\ csv \in {NoCsv} \cup [exists : {TRUE}, rows : PriceLists]
    /\ price_dict = EmptyDict
    /\ item_dicts = <<>>
    /\ cresult = NoResult
    /\ gpc = "idle" /\ file = "none" /\ points = EmptyDict
    /\ edge_lengths = EmptyDict /\ total_area = 0 /\ nread = 0
    /\ last = NoElem /\ gresult = NoResult
    /\ hpc = "idle" /\ req = NoElem /\ uploads = {} /\ calls = <<>>
    /\ harea = -1 /\ response = NoResponse /\ served = 0

\* price_dict = load_price_list(price_list_path); open() raises on a missing file
CallLoadPriceList ==
    /\ cpc = "load_prices"
    /\ IF csv.exists
       THEN cpc' = "itemize" /\ price_dict' = LoadPriceList(csv.rows)
       ELSE cpc' = "raised" /\ price_dict' = price_dict
    /\ UNCHANGED <<area, edges, csv, item_dicts, cresult>>
    /\ UNCHANGED <<geomVars, webVars>>

\* df = pd.read_csv(...), the loop over its rows, return core, optional
ItemizeRows ==
    /\ cpc = "itemize"
    /\ cpc' = "returned"
    /\ LET out == RowLoop(csv.rows, 1, area, edges, <<>>, <<>>, <<>>)
       IN  /\ item_dicts' = out.items
           /\ cresult' = [tag |-> "pair", core |-> out.core,
                          optional |-> out.optional]
    /\ UNCHANGED <<area, edges, csv, price_dict>>
    /\ UNCHANGED <<geomVars, webVars>>

CostNext ==
    \/ CallLoadPriceList
    \/ ItemizeRows

SpecCost == InitCost /\ [][CostNext]_vars

----------------------------------------------------------------------------
\* app.py: the upload and results handlers

MaxRequests == 2

Xml == <<"x","m","l">>

ALLOWED_EXTENSIONS == { Xml }

\* the file names a browser sends
Filenames ==
    { <<>>, <<"r",".","x","m","l">>, <<"R",".","X","M","L">>,
      <<"r",".","t","x","t">>, <<"x","m","l">>, <<".","x","m","l">>,
      <<"r",".","x","m","l",".","t">> }

\* the requests: the form page, posts with or without an xmlfile part, and
\* the results page opened without an area
Requests ==
    { [tag |-> "request", path |-> "/", method |-> "GET",
       has_part |-> FALSE, filename |-> <<>>],
      [tag |-> "request", path |-> "/results", method |-> "GET",
       has_part |-> FALSE, filename |-> <<>>],
      [tag |-> "request", path |-> "/", method |-> "POST",
       has_part |-> FALSE, filename |-> <<>>] }
      \cup [tag : {"request"}, path : {"/"}, method : {"POST"},
            has_part : {TRUE}, filename : Filenames]

HasDot(filename) == \E i \in 1..Len(filename) : filename[i] = "."

\* filename.rsplit(".", 1)[1]
RSplitLast(filename) == Split(filename, ".")[Len(Split(filename, "."))]

\* allowed_file testing only how the name ends
allowed_fileNoDot(filename) ==
    Len(filename) >= 3
      /\ Lower(SubSeq(filename, Len(filename) - 2, Len(filename)))
            \in ALLOWED_EXTENSIONS

allowed_file(filename) ==
    HasDot(filename) /\ Lower(RSplitLast(filename)) \in ALLOWED_EXTENSIONS

\* secure_filename on these names: leading and trailing dots are stripped
RECURSIVE LStripDots(_)
LStripDots(s) == IF s # <<>> /\ Head(s) = "." THEN LStripDots(Tail(s)) ELSE s

secure_filename(filename) == LStripDots(filename)

GeometryCall == "load_eagleview_geometry"

CostCall == "calculate_material_costs"

RendererCall == "create_estimate_pdf"

\* areas load_eagleview_geometry hands back to the handler (hundredths)
ReturnedAreas == { 0, 1000 }

InitUpload ==
    /\ hpc = "idle"
    /\ req = NoElem
    /\ uploads = {}
    /\ calls = <<>>
    /\ harea = -1
    /\ response = NoResponse
    /\ served = 0
    /\ gpc = "idle" /\ file = "none" /\ points = EmptyDict
    /\ edge_lengths = EmptyDict /\ total_area = 0 /\ nread = 0
    /\ last = NoElem /\ gresult = NoResult
    /\ cpc = "idle" /\ area = 0 /\ edges = EmptyDict /\ csv = NoCsv
    /\ price_dict = EmptyDict /\ item_dicts = <<>> /\ cresult = NoResult

\* a request arrives
Receive ==
    /\ hpc = "idle"
    /\ served < MaxRequests
    /\ \E r \in Requests : req' = r
    /\ hpc' = "route"
    /\ calls' = <<>>
    /\ harea' = -1
    /\ response' = NoResponse
    /\ UNCHANGED <<uploads, served>>
    /\ UNCHANGED <<geomVars, costVars>>

\* upload(): the GET branch and the three checks of a POST
Validate ==
    /\ hpc = "route"
    /\ req.path = "/"
    /\ IF req.method # "POST"
       THEN hpc' = "done" /\ response' = Resp("upload_form", -1)
       ELSE IF ~req.has_part
       THEN hpc' = "done" /\ response' = Resp("redirect_upload", -1)
       ELSE IF req.filename = <<>>
       THEN hpc' = "done" /\ response' = Resp("redirect_upload", -1)
       ELSE IF allowed_file(req.filename)
       THEN hpc' = "save" /\ response' = response
       ELSE hpc' = "done" /\ response' = Resp("redirect_upload", -1)
    /\ UNCHANGED <<req, uploads, calls, harea, served>>
    /\ UNCHANGED <<geomVars, costVars>>

\* file.save(os.path.join(UPLOAD_FOLDER, secure_filename(file.filename)))
SaveUpload ==
    /\ hpc = "save"
    /\ uploads' = uploads \cup { secure_filename(req.filename) }
    /\ hpc' = "geometry"
    /\ UNCHANGED <<req, calls, harea, response, served>>
    /\ UNCHANGED <<geomVars, costVars>>

\* area, edge_lengths = load_eagleview_geometry(xml_path): it returns, or the
\* ValueError of its LINE loop reaches the handler
CallGeometry ==
    /\ hpc = "geometry"
    /\ calls' = Append(calls, GeometryCall)
    /\ \/ /\ hpc' = "cost"
          /\ harea' \in ReturnedAreas
          /\ response' = response
       \/ /\ hpc' = "crashed"
          /\ harea' = harea
          /\ response' = Resp("server_error", -1)
    /\ UNCHANGED <<req, uploads, served>>
    /\ UNCHANGED <<geomVars, costVars>>

\* core_items, optional_items = calculate_material_costs(...): it returns, or
\* price_list.csv cannot be opened
CallCosts ==
    /\ hpc = "cost"
    /\ calls' = Append(calls, CostCall)
    /\ \/ hpc' = "redirect" /\ response' = response
       \/ hpc' = "crashed" /\ response' = Resp("server_error", -1)
    /\ UNCHANGED <<req, uploads, harea, served>>
    /\ UNCHANGED <<geomVars, costVars>>

\* return redirect(url_for("results", area=area)), which the browser follows
RedirectToResults ==
    /\ hpc = "redirect"
    /\ hpc' = "results"
    /\ response' = Resp("redirect_results", harea)
    /\ UNCHANGED <<req, uploads, calls, harea, served>>
    /\ UNCHANGED <<geomVars, costVars>>

\* results(): the page for the area in the query string
ResultsWithArea ==
    /\ hpc = "results"
    /\ response' = Resp("success_html", response.area)
    /\ hpc' = "done"
    /\ UNCHANGED <<req, uploads, calls, harea, served>>
    /\ UNCHANGED <<geomVars, costVars>>

\* results() without an area: back to the upload form
ResultsWithoutArea ==
    /\ hpc = "route"
    /\ req.path = "/results"
    /\ response' = Resp("redirect_upload", -1)
    /\ hpc' = "done"
    /\ UNCHANGED <<req, uploads, calls, harea, served>>
    /\ UNCHANGED <<geomVars, costVars>>

\* the response (the handler's, or the server's error page after an exception)
\* is with the client; the next request may come
Complete ==
    /\ hpc \in {"done", "crashed"}
    /\ hpc' = "idle"
    /\ served' = served + 1
    /\ UNCHANGED <<req, uploads, calls, harea, response>>
    /\ UNCHANGED <<geomVars, costVars>>

UploadNext ==
    \/ Receive
    \/ Validate
    \/ SaveUpload
    \/ CallGeometry
    \/ CallCosts
    \/ RedirectToResults
    \/ ResultsWithArea
    \/ ResultsWithoutArea
    \/ Complete

SpecUpload == InitUpload /\ [][UploadNext]_vars

----------------------------------------------------------------------------
\* Claims about load_eagleview_geometry

FailedInput == file \in {"missing", "malformed"}

\* C1 as stated: for a path that does not exist, or a file that is not
\* well-formed XML, the call returns (0.0, edge_lengths) where edge_lengths has
\* exactly the five keys ridge, hip, valley, eave, rake, each 0.0.
C1_FiveZeroKeys ==
    (FailedInput /\ gpc = "returned") =>
        /\ gresult.area = 0
        /\ DOMAIN gresult.edges = EdgeKinds
        /\ \A k \in EdgeKinds : gresult.edges[k] = 0

\* C1 as amended: for such an input the call returns, without raising and
\* without reading any element, the pair (0.0, {}): the mapping is empty and
\* holds none of the five keys.
C1_FailedLoadReturnsEmptyDict ==
    FailedInput =>
        /\ gpc \in {"exists", "parse", "returned"}
        /\ gpc = "returned" =>
              /\ gresult.area = 0
              /\ DOMAIN gresult.edges = {}
        /\ points = EmptyDict /\ last = NoElem

C1_Witness == file = "malformed" /\ gpc = "returned" /\ gresult.tag = "pair"

\* C3: for every well-formed document, whatever its POINT coordinate strings,
\* LINE types and paths (with fewer or more than two identifiers) and POLYGON
\* area strings, load_eagleview_geometry returns a pair and never raises.
C3_NeverRaises == file = "wellformed" => gpc # "raised"

\* the claim's two kinds of segment that contribute nothing: its category is not
\* one of the five, or its (at most two) identifiers are not all in the mapping
C9_Ids(path) == Split(path, ",")

C9_Skipped(pts, line) ==
    \/ Lower(Strip(line.type)) \notin {Ridge, Hip, Valley, Eave, Rake}
    \/ /\ Len(C9_Ids(line.path)) <= 2
       /\ \/ Len(C9_Ids(line.path)) < 2
          \/ \E i \in 1..2 : C9_Ids(line.path)[i] \notin DOMAIN pts

\* C9: a LINE whose category is not one of {ridge, hip, valley, eave, rake}, or
\* which references a point identifier absent from the point mapping, leaves the
\* area, all five edge totals and the point mapping as they were, so that what
\* is returned is what the document without that segment returns; and a segment
\* that is accumulated adds its own length to its own category alone, whatever
\* segments were skipped before it.
C9_SkippedLineChangesNothing ==
    [][ (gpc = "lines" /\ nread' = nread + 1) =>
          /\ C9_Skipped(points, last') =>
                /\ gpc' = "lines"
                /\ edge_lengths' = edge_lengths
                /\ total_area' = total_area
                /\ points' = points
          /\ (~C9_Skipped(points, last') /\ gpc' = "lines") =>
                \A k \in EdgeKinds :
                    edge_lengths'[k] = edge_lengths[k] +
                        (IF k = Lower(Strip(last'.type))
                         THEN Norm(points[C9_Ids(last'.path)[1]],
                                   points[C9_Ids(last'.path)[2]])
                         ELSE 0) ]_vars

C9_Witness ==
    /\ gpc = "lines"
    /\ last.tag = "LINE"
    /\ C9_Skipped(points, last)
    /\ edge_lengths[Ridge] > 0
    /\ Lower(Strip(last.type)) = Ridge

----------------------------------------------------------------------------
\* Claims about calculate_material_costs

\* the sets of section 4.3
Spec_Required ==
    { DimensionalShingle, SyntheticUnderlayment, DripEdge, StarterStripShingles,
      HipRidgeShingles, RoofingNails, CapNails, Dumpster }

Spec_Optional ==
    { LuxuryCompositeShingle, IceWaterShield, RidgeVent, PoweredAtticFan,
      DeckIntakeVent, GutterGuards }

Spec_WasteProne == { DimensionalShingle, SyntheticUnderlayment, IceWaterShield }

Spec_NameRules ==
    { HipRidgeShingles, StarterStripShingles, RoofingNails, CapNails,
      DeckIntakeVent, Dumpster }

\* row i of the price list, normalised: trimmed and lowercased
NameAt(i) == Lower(Strip(csv.rows[i].item_name))

UnitAt(i) == Lower(Strip(csv.rows[i].unit_type))

\* edge_lengths[k], 0.0 for a category the mapping does not hold
EdgeLen(k) == IF k \in DOMAIN edges THEN edges[k] ELSE 0

\* the ten rules of section 4.3 in their priority order, each a pair
\* <<applies, quantity>>, quantities in ten-thousandths
Spec_Rules(name, unit) ==
    << <<name = HipRidgeShingles, 100 * (EdgeLen(Hip) + EdgeLen(Ridge))>>,
       <<name = StarterStripShingles, 100 * EdgeLen(Eave)>>,
       <<name = RoofingNails, area>>,
       <<name = CapNails, 10000>>,
       <<name = DeckIntakeVent, 75 * EdgeLen(Eave)>>,
       <<name = Dumpster, 10000>>,
       <<unit = SqFt, IF name \in Spec_WasteProne THEN 110 * area ELSE 100 * area>>,
       <<unit = LinearFt,
         CASE name = RidgeVent -> 100 * EdgeLen(Ridge)
           [] name = GutterGuards -> 100 * EdgeLen(Eave)
           [] name = DripEdge -> 100 * EdgeLen(Eave)
           [] OTHER -> 0>>,
       <<unit = Ea, 10000>>,
       <<TRUE, 0>> >>

\* first match wins
Spec_Quantity(name, unit) ==
    LET rules == Spec_Rules(name, unit)
        first == CHOOSE k \in 1..10 :
                    rules[k][1] /\ \A j \in 1..(k - 1) : ~rules[j][1]
    IN  rules[first][2]

CostReturned == cpc = "returned"

\* C2 as stated: Total Cost = round(Quantity * Unit Price, 2), Quantity being
\* the item's own 2-decimal rounded quantity.
C2_CostFromRoundedQuantity ==
    CostReturned =>
        \A i \in 1..Len(item_dicts) :
            item_dicts[i].TotalCost =
                RoundDiv(item_dicts[i].Quantity * item_dicts[i].UnitPrice, 1000)

\* C2 as amended: every line item's Total Cost is round(q * Unit Price, 2) where
\* q is the unrounded quantity the quantity rule gives the row; the 2-decimal
\* Quantity is rounded separately and is not what is multiplied.
C2_CostFromUnroundedQuantity ==
    CostReturned =>
        /\ Len(item_dicts) = Len(csv.rows)
        /\ \A i \in 1..Len(item_dicts) :
              /\ item_dicts[i].TotalCost =
                    RoundDiv(Spec_Quantity(NameAt(i), UnitAt(i))
                               * item_dicts[i].UnitPrice, 100000)
              /\ item_dicts[i].Quantity =
                    RoundDiv(Spec_Quantity(NameAt(i), UnitAt(i)), 100)
        /\ \A j \in 1..Len(cresult.core) :
              \E i \in 1..Len(item_dicts) : cresult.core[j] = item_dicts[i]
        /\ \A j \in 1..Len(cresult.optional) :
              \E i \in 1..Len(item_dicts) : cresult.optional[j] = item_dicts[i]

\* a returned line item whose cost differs from the cost of its displayed quantity
C2_Witness ==
    /\ CostReturned
    /\ \E j \in 1..Len(cresult.core) :
          /\ cresult.core[j].TotalCost > 0
          /\ cresult.core[j].TotalCost #
                RoundDiv(cresult.core[j].Quantity * cresult.core[j].UnitPrice, 1000)

\* C6: for every catalog row the quantity is that of the ten-step priority rule,
\* first match wins, on (normalized name, unit type): the six name rules come
\* before any unit-type rule, then sq ft, then linear ft, then ea, else 0.0.
C6_QuantityIsFirstMatchingRule ==
    CostReturned =>
        /\ Len(item_dicts) = Len(csv.rows)
        /\ \A i \in 1..Len(csv.rows) :
              item_dicts[i].Quantity =
                  RoundDiv(Spec_Quantity(NameAt(i), UnitAt(i)), 100)

\* roofing nails priced by the each gets area / 100, after another row
C6_Witness ==
    /\ CostReturned
    /\ \E i \in 2..Len(csv.rows) :
          /\ NameAt(i) = RoofingNails /\ UnitAt(i) = Ea
          /\ area = 1000
          /\ item_dicts[i].Quantity = 10

\* C7 as stated: for every row with unit type sq ft, the quantity is
\* round(total_area * 1.10, 2) if the name is waste-prone, and
\* round(total_area, 2) for all other sq ft items.
C7_EverySqFtRow ==
    CostReturned =>
        \A i \in 1..Len(csv.rows) :
            UnitAt(i) = SqFt =>
                item_dicts[i].Quantity =
                    (IF NameAt(i) \in Spec_WasteProne
                     THEN RoundDiv(110 * area, 100) ELSE area)

\* C7 as amended: the same, for every sq ft row whose name is not one of the six
\* names that have a rule of their own (those keep their name rule's quantity).
C7_SqFtRowWithoutNameRule ==
    CostReturned =>
        \A i \in 1..Len(csv.rows) :
            (UnitAt(i) = SqFt /\ NameAt(i) \notin Spec_NameRules) =>
                item_dicts[i].Quantity =
                    (IF NameAt(i) \in Spec_WasteProne
                     THEN RoundDiv(110 * area, 100) ELSE area)

C7_Witness ==
    /\ CostReturned
    /\ area = 1000
    /\ \E i, j \in 1..Len(csv.rows) :
          /\ UnitAt(i) = SqFt /\ NameAt(i) = IceWaterShield
          /\ item_dicts[i].Quantity = 1100
          /\ UnitAt(j) = SqFt /\ NameAt(j) = LuxuryCompositeShingle
          /\ item_dicts[j].Quantity = 1000

\* the line items of the rows whose normalized name is in S, in row order
RECURSIVE C8_Selected(_, _)
C8_Selected(S, n) ==
    IF n = 0 THEN <<>>
    ELSE IF NameAt(n) \in S
         THEN Append(C8_Selected(S, n - 1), item_dicts[n])
         ELSE C8_Selected(S, n - 1)

\* C8: the core list is exactly the subsequence of catalog rows whose normalized
\* name is in the required set, the optional list the subsequence whose name is
\* in the optional set, each in row order with one line item per row, repeats
\* included; a row in neither set is in neither list, no row is in both, and an
\* empty catalog gives two empty lists.
C8_ListsAreRowSubsequences ==
    CostReturned =>
        /\ Len(item_dicts) = Len(csv.rows)
        /\ \A i \in 1..Len(csv.rows) :
              /\ item_dicts[i].Material = Title(NameAt(i))
              /\ item_dicts[i].UnitType = UnitAt(i)
        /\ cresult.core = C8_Selected(Spec_Required, Len(csv.rows))
        /\ cresult.optional = C8_Selected(Spec_Optional, Len(csv.rows))
        /\ Len(cresult.core) + Len(cresult.optional) =
              Cardinality({ i \in 1..Len(csv.rows) :
                              NameAt(i) \in Spec_Required \cup Spec_Optional })
        /\ csv.rows = <<>> => (cresult.core = <<>> /\ cresult.optional = <<>>)

\* two rows of one name, each with its own line item, in row order
C8_Witness ==
    /\ CostReturned
    /\ Len(csv.rows) = 2
    /\ Len(cresult.core) = 2
    /\ NameAt(1) = NameAt(2)
    /\ cresult.core[1] # cresult.core[2]
    /\ cresult.core[1] = item_dicts[1]

----------------------------------------------------------------------------
\* Claims about the upload handler

\* the text after the last dot of a file name, none when it has no dot
RECURSIVE C4_AfterLastDot(_, _)
C4_AfterLastDot(name, i) ==
    IF i = 0 THEN None
    ELSE IF name[i] = "." THEN SubSeq(name, i + 1, Len(name))
    ELSE C4_AfterLastDot(name, i - 1)

C4_Extension(name) == C4_AfterLastDot(name, Len(name))

\* a POST with no xmlfile part, an empty file name, or an extension that is
\* not xml (in either case of the letters)
C4_Rejected(r) ==
    /\ r.tag = "request" /\ r.path = "/" /\ r.method = "POST"
    /\ \/ ~r.has_part
       \/ r.filename = <<>>
       \/ C4_Extension(r.filename) \notin { Xml, <<"X","M","L">> }

\* C4: a POST with no xmlfile part, with an empty filename, or with a filename
\* whose extension is not xml is rejected before the pipeline runs: neither
\* load_eagleview_geometry nor calculate_material_costs is invoked, no file is
\* saved, and the response is a redirect back to the upload form.
C4_RejectedBeforePipeline ==
    [][ C4_Rejected(req') =>
          /\ calls' = <<>>
          /\ uploads' = uploads
          /\ hpc' \in {"route", "done", "idle"}
          /\ hpc' \in {"done", "idle"} => response'.kind = "redirect_upload" ]_vars

\* a post of a .txt file answered, while an earlier upload sits in the folder
C4_Witness ==
    /\ hpc = "done"
    /\ C4_Rejected(req)
    /\ req.filename = <<"r",".","t","x","t">>
    /\ response.kind = "redirect_upload"
    /\ uploads # {}

C5_Accepted(r) ==
    /\ r.tag = "request" /\ r.path = "/" /\ r.method = "POST"
    /\ r.has_part
    /\ C4_Extension(r.filename) \in { Xml, <<"X","M","L">> }

\* C5: for every accepted upload the handler runs the Geometry Extractor, then
\* the Cost Calculator, then the Estimate Renderer, and the response delivered
\* is the rendered document; no accepted request completes without the renderer
\* having been invoked.
C5_AcceptedUploadIsRendered ==
    (hpc = "done" /\ C5_Accepted(req)) =>
        /\ calls = <<GeometryCall, CostCall, RendererCall>>
        /\ response.kind = "document"

====
